---- MODULE Spec2Model ----
(***************************************************************************)
(* Verification model of the F1 lap time simulator (src/F1simulation) and  *)
(* of its parameter sweep harnesses (src/F1simulation/main.cpp).           *)
(*                                                                         *)
(* Numbers.  The program computes in double; the model computes in fixed   *)
(* point integers:                                                         *)
(*   position cm, velocity cm/s, acceleration cm/s^2, time and time step   *)
(*   in 1/100 s, tyre temperature in 1/100 degC, forces and loads in N,    *)
(*   grip multiplier in 1/1000, throttle and brake in 1/10.                *)
(* A quotient is truncated where the scaled value is formed.               *)
(***************************************************************************)
EXTENDS Integers, Sequences, FiniteSets, TLC

VARIABLES
    \* ---- LapTimeSimulator object and the position of a runSimulation call
    track,        \* std::vector<TrackSegment> track
    telemetry,    \* std::vector<VehicleState> telemetry
    totalTime,    \* double totalTime
    state,        \* runSimulation's local VehicleState state
    segIdx,       \* runSimulation's loop variable i (1-based here)
    segmentEnd,   \* runSimulation's local segmentEnd
    timeStep,     \* runSimulation's argument
    pc,           \* where the caller of the simulator is: "idle", "for", "while"
    stepCalls,    \* history: number of simulateStep calls of the current run
    runs,         \* history: number of runSimulation calls so far
    \* ---- sweep harnesses of main.cpp
    harness,      \* which harness runs: "packaged", "async", "openmp", or "none"
    inputs,       \* std::vector<double>& inputs
    simResult,    \* what runSimulator(false, coeff) returns for each coeff
    mainPc,       \* position of the harness' own thread
    wpc,          \* position of each worker (one per input index)
    fut,          \* resultsf[i]: NotReady or the worker's value
    wres,         \* openmp: each iteration's local "result"
    wend,         \* openmp: the end-of-vector position a push_back has read
    mainIdx,      \* the loop index of the harness' own thread
    cresults,     \* std::vector<std::vector<double>> cresults
    \* ---- LabelingMachine object and the last call made on it
    machineState,     \* MachineState state
    previousState,    \* MachineState previousState
    sensors,          \* SensorData sensors
    previousSensors,  \* SensorData previousSensors
    productsLabeled,  \* int productsLabeled
    errorCount,       \* int errorCount
    errorCause,       \* history: why the machine last entered ERROR
    op,               \* history: the member function called last
    ret,              \* history: what that call returned
    calls,            \* history: number of calls made so far
    \* ---- one evaluation of calculateGripMultiplier
    gripArg,      \* the VehicleState passed
    gripResult,   \* the value returned
    gripPc,       \* "call" before the evaluation, "returned" after it
    \* ---- evaluations of calculateMaxCornerSpeed, calculateLoad, simulateStep
    stepArgs,     \* the arguments: current state, segment, time step
    cornerResult, \* what calculateMaxCornerSpeed returned
    loadResult,   \* the state calculateLoad has written the loads into
    stepResult,   \* what simulateStep returned, with its stage derivatives
    stepDone      \* the functions evaluated so far

simVars == <<track, telemetry, totalTime, state, segIdx, segmentEnd, timeStep,
             pc, stepCalls, runs>>
sweepVars == <<harness, inputs, simResult, mainPc, wpc, fut, wres, wend, mainIdx,
               cresults>>
machineVars == <<machineState, previousState, sensors, previousSensors,
                 productsLabeled, errorCount, errorCause, op, ret, calls>>
gripVars == <<gripArg, gripResult, gripPc>>
stepVars == <<stepArgs, cornerResult, loadResult, stepResult, stepDone>>
vars == <<simVars, sweepVars, machineVars, gripVars, stepVars>>

\* What the steps of one part of the model leave alone.
nonSimVars == <<sweepVars, machineVars, gripVars, stepVars>>
nonSweepVars == <<simVars, machineVars, gripVars, stepVars>>
nonMachineVars == <<simVars, sweepVars, gripVars, stepVars>>
nonGripVars == <<simVars, sweepVars, machineVars, stepVars>>
nonStepVars == <<simVars, sweepVars, machineVars, gripVars>>

---------------------------------------------------------------------------
(* Bounds of the model *)
MaxSegments == 2      \* segments a track may hold
MaxSamples == 18      \* telemetry samples a run may record before it is cut off
MaxRuns == 2          \* runSimulation calls on one simulator
MaxInputs == 3        \* parameter values in one sweep

\* Arguments the caller may pass (lengths and radii in cm, angles in degrees,
\* time steps in 1/100 s).
Lengths == {0, 90000}
Radii == {0, 100}
Inclinations == {0, 30}
TimeSteps == {-50, 0, 100}

---------------------------------------------------------------------------
(* Physical constants and vehicle parameters *)
GRAVITY == 981         \* 9.81 m/s^2, in cm/s^2
AIR_DENSITY == 1225    \* 1.225 kg/m^3, in g/m^3
VMAX == 10000          \* the literal 100 of updateNextState, in cm/s
NO_LIMIT == 100000     \* the literal 1000.0 of calculateMaxCornerSpeed, in cm/s
V_FLOOR == 10          \* the literal 0.1 of calculateTractionForce, in cm/s

\* Constants and fields the sources use but do not define.
TIRE_MASS == 10
TIRE_SPECIFIC_HEAT == 6000
HEAT_TRANSFER_COEFF == 5
AMBIENT_TEMP == 2500
BASE_TIRE_TEMP == 6000

\* LapTimeSimulator::LapTimeSimulator: the default vehicle.  dragCoeff,
\* frontalArea and tireGripCoeff in 1/10, wheelRadius, centerGravity and
\* wheelBase in cm, the weight distribution in percent.
vehicle ==
    [ mass |-> 798, dragCoeff |-> 7, frontalArea |-> 15, downforceCoeff |-> 35,
      maxPower |-> 750000, maxBrakeTorque |-> 5000, tireGripCoeff |-> 18,
      wheelRadius |-> 33,
      weightDistFront |-> 45, weightDistRear |-> 55,
      centerGravity |-> 30, wheelBase |-> 360 ]

---------------------------------------------------------------------------
(* double arithmetic the code relies on *)

\* The value sqrt() returns for a negative argument.  Every comparison with
\* it is false.
NaN == -2000000000

Less(a, b) == a # NaN /\ b # NaN /\ a < b

\* std::min(a, b): (b < a) ? b : a
Min(a, b) == IF Less(b, a) THEN b ELSE a

\* x * num / den
Scaled(x, num, den) == IF x = NaN THEN NaN ELSE (x * num) \div den

RECURSIVE SqrtSearch(_, _, _)
SqrtSearch(n, lo, hi) ==
    IF lo >= hi THEN lo
    ELSE LET mid == (lo + hi + 1) \div 2
         IN  IF mid * mid <= n THEN SqrtSearch(n, mid, hi)
             ELSE SqrtSearch(n, lo, mid - 1)

\* sqrt(n), rounded down
sqrt(n) == IF n = NaN \/ n < 0 THEN NaN ELSE SqrtSearch(n, 0, 46340)

\* sin(deg * M_PI / 180.0) in 1/1000, for the angles the model passes
sin(deg) ==
    CASE deg = 0 -> 0
      [] deg = 30 -> 500
      [] deg = -30 -> -500
      [] deg = 90 -> 1000
      [] deg = -90 -> -1000
      [] OTHER -> (deg * 1745) \div 100

\* vehicle.mass * GRAVITY, in N
StaticLoad == (vehicle.mass * GRAVITY) \div 100

---------------------------------------------------------------------------
(* Force, grip, thermal and load models: simulationstep.cpp *)

\* velocity^2 in m^2/s^2
VSquared(velocity) == (velocity * velocity) \div 10000

calculateDrag(velocity) ==
    (((AIR_DENSITY * vehicle.frontalArea * vehicle.dragCoeff) \div 2)
        * VSquared(velocity)) \div 100000

calculateDownforce(velocity) ==
    (((AIR_DENSITY * vehicle.frontalArea * vehicle.downforceCoeff) \div 200)
        * VSquared(velocity)) \div 1000

calculateMaxCornerSpeed(radius, grip_multiplier) ==
    IF radius = 0 THEN NO_LIMIT
    ELSE LET tireGrip == Scaled(grip_multiplier, vehicle.tireGripCoeff, 10)
         IN  IF tireGrip = NaN THEN NaN
             ELSE sqrt(((tireGrip * GRAVITY) \div 1000) * radius)

calculateTractionForce(velocity, throttle, grip_multiplier) ==
    LET v == IF velocity < V_FLOOR THEN V_FLOOR ELSE velocity
        engineForce == (((vehicle.maxPower * 100) \div v) * throttle) \div 10
        maxTractionForce ==
            IF grip_multiplier = NaN THEN NaN
            ELSE (((vehicle.tireGripCoeff * grip_multiplier) \div 10) * StaticLoad)
                    \div 1000
    IN  Min(engineForce, maxTractionForce)

\* A value that is used more than once is named by binding it in a
\* one-element set: CHOOSE r \in { F(x) : x \in {e} } : TRUE is F(e).
calculateGripMultiplier(s) ==
    CHOOSE result \in
        { IF grip = NaN THEN NaN
          ELSE IF s.tireTemp < 8000
               THEN (grip * (700 + (300 * s.tireTemp) \div 8000)) \div 1000
          ELSE IF s.tireTemp > 12000
               THEN (grip * (1000 - (500 * (s.tireTemp - 12000)) \div 8000)) \div 1000
          ELSE grip
          : grip \in { sqrt((((s.frontLoad + s.rearLoad) * 1000) \div StaticLoad)
                                * 1000) } } : TRUE

calculateBrakeForce(brake) ==
    (vehicle.maxBrakeTorque * brake * 10) \div vehicle.wheelRadius

\* Variant of ControlPolicy that keeps some throttle while it brakes.
ControlPolicy_both_pedals(velocity, targetSpeed) ==
    IF Less(velocity, Scaled(targetSpeed, 95, 100))
    THEN [throttle |-> 10, brake |-> 0]
    ELSE IF Less(Scaled(targetSpeed, 105, 100), velocity)
    THEN [throttle |-> 3, brake |-> 8]
    ELSE [throttle |-> 3, brake |-> 0]

\* Variant of ControlPolicy that brakes below the target speed.
ControlPolicy_brake_below(velocity, targetSpeed) ==
    IF Less(velocity, Scaled(targetSpeed, 95, 100))
    THEN [throttle |-> 0, brake |-> 8]
    ELSE IF Less(Scaled(targetSpeed, 105, 100), velocity)
    THEN [throttle |-> 0, brake |-> 8]
    ELSE [throttle |-> 3, brake |-> 0]

\* calculateDerivartives, the choice of throttle and brake.
ControlPolicy(velocity, targetSpeed) ==
    IF Less(velocity, Scaled(targetSpeed, 95, 100))
    THEN [throttle |-> 10, brake |-> 0]
    ELSE IF Less(Scaled(targetSpeed, 105, 100), velocity)
    THEN [throttle |-> 0, brake |-> 8]
    ELSE [throttle |-> 3, brake |-> 0]

\* calculateDerivartives, the forces under the chosen throttle and brake.
NetForce(s, segment, grip_multiplier, ctl) ==
    LET dragForce == calculateDrag(s.velocity)
        tractionForce ==
            calculateTractionForce(s.velocity, ctl.throttle, grip_multiplier)
        brakeForce == calculateBrakeForce(ctl.brake)
        gravitationalForce == (StaticLoad * sin(segment.inclination)) \div 1000
    IN  tractionForce - dragForce - brakeForce - gravitationalForce

\* The result is the derivative and the state with the throttle and brake the
\* function stores into its reference argument.
calculateDerivartives(s, segment) ==
    CHOOSE result \in UNION
        { { [ derivartive |->
                (NetForce(s, segment, grip_multiplier, ctl) * 100) \div vehicle.mass,
              state |-> [s EXCEPT !.throttle = ctl.throttle, !.brake = ctl.brake] ]
            : ctl \in { ControlPolicy(s.velocity,
                            calculateMaxCornerSpeed(segment.radius, grip_multiplier)) } }
          : grip_multiplier \in { calculateGripMultiplier(s) } } : TRUE

calculateTempDerivartives(s) ==
    LET grip_multiplier == calculateGripMultiplier(s)
        tractionForce ==
            calculateTractionForce(s.velocity, s.throttle, grip_multiplier)
    IN  ((tractionForce * s.velocity) \div (TIRE_MASS * TIRE_SPECIFIC_HEAT)) * 4
        - (HEAT_TRANSFER_COEFF * (s.tireTemp - AMBIENT_TEMP)) \div TIRE_MASS

calculateLoad(s) ==
    LET downforce == calculateDownforce(s.velocity)
        totalLoad == StaticLoad + downforce
        loadTransfer == (s.acceleration * vehicle.mass * vehicle.centerGravity)
                            \div (vehicle.wheelBase * 100)
    IN  [s EXCEPT
            !.frontLoad = (totalLoad * vehicle.weightDistFront) \div 100 + loadTransfer,
            !.rearLoad = (totalLoad * vehicle.weightDistRear) \div 100 - loadTransfer]

\* Variant of ClampVelocity without the lower constraint.
ClampVelocity_upper_only(s) ==
    [s EXCEPT !.velocity = IF @ > VMAX THEN VMAX ELSE @]

\* The velocity constraints at the end of updateNextState.
ClampVelocity(s) ==
    [s EXCEPT !.velocity = IF @ < 0 THEN 0 ELSE IF @ > VMAX THEN VMAX ELSE @]

\* s carries the acceleration and tireTemp the caller has set.
updateNextState(s, prestate, dt) ==
    CHOOSE result \in
        { ClampVelocity(loaded)
          : loaded \in
              { calculateLoad(
                    [s EXCEPT
                        !.velocity = velocity,
                        !.position = prestate.position + (velocity * dt) \div 100,
                        !.time = prestate.time + dt,
                        !.throttle = prestate.throttle,
                        !.brake = prestate.brake])
                : velocity \in { prestate.velocity + (s.acceleration * dt) \div 100 } } }
        : TRUE

\* The body of simulateStep's loop: the intermediate state built from the
\* derivatives acc and tempDeriv, and the derivatives at it.
Stage(current, segment, acc, tempDeriv, dt_t) ==
    CHOOSE result \in
        { [acceleration |-> d.derivartive,
           tempDeriv |-> calculateTempDerivartives(d.state)]
          : d \in
              { calculateDerivartives(built, segment)
                : built \in
                    { updateNextState(
                        [current EXCEPT !.acceleration = acc,
                                        !.tireTemp = current.tireTemp
                                                        + (tempDeriv * dt_t) \div 100],
                        current, dt_t) } } } : TRUE

\* simulateStep's loop from iteration i on; acceleration and tempDeriv hold
\* the entries 0..i of the code's vectors.
RECURSIVE StageLoop(_, _, _, _, _, _)
StageLoop(current, segment, dt, i, acceleration, tempDeriv) ==
    IF i = 3
    THEN [current |-> current, acceleration |-> acceleration, tempDeriv |-> tempDeriv]
    ELSE CHOOSE result \in
            { StageLoop(current, segment, dt, i + 1,
                        Append(acceleration, k.acceleration),
                        Append(tempDeriv, k.tempDeriv))
              : k \in { Stage(current, segment, acceleration[i + 1], tempDeriv[i + 1],
                              IF i = 2 THEN dt ELSE dt \div 2) } } : TRUE

\* simulateStep up to the end of its loop: current as calculateDerivartives
\* has left it, and the vectors acceleration and tempDeriv.
simulateStep_stages(cur, segment, dt) ==
    CHOOSE k \in
        { StageLoop(d0.state, segment, dt, 0, <<d0.derivartive>>,
                    <<calculateTempDerivartives(d0.state)>>)
          : d0 \in { calculateDerivartives(cur, segment) } } : TRUE

simulateStep(cur, segment, dt) ==
    CHOOSE next \in
        { updateNextState(
            [k.current EXCEPT
                !.acceleration = (k.acceleration[1] + k.acceleration[4]) \div 6
                                    + (k.acceleration[2] + k.acceleration[3]) \div 3,
                !.tireTemp = k.current.tireTemp
                                    + (k.tempDeriv[1] + k.tempDeriv[4]) \div 6
                                    + (k.tempDeriv[2] + k.tempDeriv[3]) \div 3],
            k.current, dt)
          : k \in { simulateStep_stages(cur, segment, dt) } } : TRUE

---------------------------------------------------------------------------
(* LapTimeSimulator: laptimesim.cpp *)

\* runSimulation assigns neither tireTemp nor the loads of its initial state.
\* The tyre starts at its baseline temperature; the loads are whatever the
\* build puts there.
UnsetLoads ==
    { [frontLoad |-> 0, rearLoad |-> 0],
      [frontLoad |-> (StaticLoad * vehicle.weightDistFront) \div 100,
       rearLoad |-> (StaticLoad * vehicle.weightDistRear) \div 100] }

\* The state runSimulation starts from.
StartState(tireTemp, loads) ==
    [ position |-> 0, velocity |-> 0, acceleration |-> 0, time |-> 0,
      throttle |-> 0, brake |-> 0,
      tireTemp |-> tireTemp, frontLoad |-> loads.frontLoad,
      rearLoad |-> loads.rearLoad ]

NoState == StartState(0, [frontLoad |-> 0, rearLoad |-> 0])

SimInit ==
    /\ track = <<>>
    /\ telemetry = <<>>
    /\ totalTime = 0
    /\ state = NoState
    /\ segIdx = 0
    /\ segmentEnd = 0
    /\ timeStep = 0
    /\ pc = "idle"
    /\ stepCalls = 0
    /\ runs = 0

\* void addTrackSegment(length, radius, inclination, type); the type tag is
\* only printed.
addTrackSegment(length, radius, inclination) ==
    /\ pc = "idle"
    /\ Len(track) < MaxSegments
    /\ track' = Append(track, [length |-> length, radius |-> radius,
                               inclination |-> inclination])
    /\ UNCHANGED nonSimVars
    /\ UNCHANGED <<telemetry, totalTime, state, segIdx, segmentEnd, timeStep,
                   pc, stepCalls, runs>>

\* Variant of runSimulation_begin that keeps the telemetry and the lap time
\* of the run before.
runSimulation_begin_keep(ts) ==
    /\ pc = "idle"
    /\ runs < MaxRuns
    /\ \E loads \in UnsetLoads : state' = StartState(BASE_TIRE_TEMP, loads)
    /\ segIdx' = 1
    /\ timeStep' = ts
    /\ pc' = "for"
    /\ stepCalls' = 0
    /\ runs' = runs + 1
    /\ UNCHANGED nonSimVars
    /\ UNCHANGED <<track, segmentEnd, telemetry, totalTime>>

\* runSimulation, up to its for loop.
runSimulation_begin(ts) ==
    /\ pc = "idle"
    /\ runs < MaxRuns
    /\ telemetry' = <<>>
    /\ totalTime' = 0
    /\ \E loads \in UnsetLoads : state' = StartState(BASE_TIRE_TEMP, loads)
    /\ segIdx' = 1
    /\ timeStep' = ts
    /\ pc' = "for"
    /\ stepCalls' = 0
    /\ runs' = runs + 1
    /\ UNCHANGED nonSimVars
    /\ UNCHANGED <<track, segmentEnd>>

\* for (i < track.size()): segmentEnd = state.position + segment.length
runSimulation_segment ==
    /\ pc = "for"
    /\ segIdx <= Len(track)
    /\ segmentEnd' = state.position + track[segIdx].length
    /\ pc' = "while"
    /\ UNCHANGED nonSimVars
    /\ UNCHANGED <<track, telemetry, totalTime, state, segIdx, timeStep,
                   stepCalls, runs>>

\* Variant of runSimulation_step that records the state after the step.
runSimulation_step_push_after ==
    /\ pc = "while"
    /\ state.position < segmentEnd
    /\ Len(telemetry) < MaxSamples
    /\ state' = simulateStep(state, track[segIdx], timeStep)
    /\ telemetry' = Append(telemetry, state')
    /\ stepCalls' = stepCalls + 1
    /\ UNCHANGED nonSimVars
    /\ UNCHANGED <<track, totalTime, segIdx, segmentEnd, timeStep, pc, runs>>

\* One iteration of the while loop: record the state, then integrate a step.
runSimulation_step ==
    /\ pc = "while"
    /\ state.position < segmentEnd
    /\ Len(telemetry) < MaxSamples
    /\ telemetry' = Append(telemetry, state)
    /\ state' = simulateStep(state, track[segIdx], timeStep)
    /\ stepCalls' = stepCalls + 1
    /\ UNCHANGED nonSimVars
    /\ UNCHANGED <<track, totalTime, segIdx, segmentEnd, timeStep, pc, runs>>

\* The while loop is left (its condition is false, or the break is taken).
runSimulation_exit ==
    /\ pc = "while"
    /\ ~(state.position < segmentEnd)
    /\ segIdx' = segIdx + 1
    /\ pc' = "for"
    /\ UNCHANGED nonSimVars
    /\ UNCHANGED <<track, telemetry, totalTime, state, segmentEnd, timeStep,
                   stepCalls, runs>>

\* Variant of runSimulation_end that does not store the lap time.
runSimulation_end_no_time ==
    /\ pc = "for"
    /\ segIdx > Len(track)
    /\ pc' = "idle"
    /\ UNCHANGED nonSimVars
    /\ UNCHANGED <<track, telemetry, totalTime, state, segIdx, segmentEnd,
                   timeStep, stepCalls, runs>>

\* After the last segment: totalTime = state.time
runSimulation_end ==
    /\ pc = "for"
    /\ segIdx > Len(track)
    /\ totalTime' = state.time
    /\ pc' = "idle"
    /\ UNCHANGED nonSimVars
    /\ UNCHANGED <<track, telemetry, state, segIdx, segmentEnd, timeStep,
                   stepCalls, runs>>

getLapTime == totalTime

SimNext ==
    \/ \E l \in Lengths, r \in Radii, inc \in Inclinations :
            addTrackSegment(l, r, inc)
    \/ \E ts \in TimeSteps : runSimulation_begin(ts)
    \/ runSimulation_segment
    \/ runSimulation_step
    \/ runSimulation_exit
    \/ runSimulation_end

\* Tracks of positive lengths a caller may have built with addTrackSegment:
\* a 4 m straight, a 900 m straight, the 4 m straight followed by a 4 m
\* corner of radius 1 m, and an 894 m straight.
ShortStraight == [length |-> 400, radius |-> 0, inclination |-> 0]
LongStraight == [length |-> 90000, radius |-> 0, inclination |-> 0]
ShortCorner == [length |-> 400, radius |-> 100, inclination |-> 0]
\* An 894 m straight: it ends just beyond a position the car reaches at vMax.
Straight894 == [length |-> 89400, radius |-> 0, inclination |-> 0]
LapTracks ==
    { <<ShortStraight>>, <<LongStraight>>, <<ShortStraight, ShortCorner>>,
      <<Straight894>> }

\* A simulator whose track is t, before its first run.
SimWithTrack(t) ==
    /\ track = t
    /\ telemetry = <<>>
    /\ totalTime = 0
    /\ state = NoState
    /\ segIdx = 0
    /\ segmentEnd = 0
    /\ timeStep = 0
    /\ pc = "idle"
    /\ stepCalls = 0
    /\ runs = 0

\* runSimulation calls on a simulator whose track is built.
LapNext ==
    \/ \E ts \in TimeSteps : runSimulation_begin(ts)
    \/ runSimulation_segment
    \/ runSimulation_step
    \/ runSimulation_exit
    \/ runSimulation_end

---------------------------------------------------------------------------
(* Parameter sweeps: main.cpp *)

\* Downforce coefficients a sweep may be given (in 1/100) and lap times a
\* run may yield (in 1/100 s).
ParamValues == {250, 275}
LapTimes == {4000, 4100}

\* A future no value has been stored in yet.
NotReady == [ready |-> FALSE, value |-> 0]
Ready(v) == [ready |-> TRUE, value |-> v]

\* A vector element that push_back never constructed.
Unconstructed == <<>>

Workers == 1..Len(inputs)

RECURSIVE SeqsUpTo(_)
SeqsUpTo(n) ==
    IF n = 0 THEN {<<>>}
    ELSE LET shorter == SeqsUpTo(n - 1)
         IN  shorter \cup { Append(q, v) : q \in {x \in shorter : Len(x) = n - 1},
                                            v \in ParamValues }

\* double runSimulator(bool islogging, double downforceCoeff): a run of a
\* simulator local to the call; what it returns depends on the coefficient
\* alone.
runSimulator(coeff) == simResult[coeff]

SweepStart(h) ==
    /\ harness = h
    /\ inputs \in SeqsUpTo(MaxInputs)
    /\ simResult \in [ParamValues -> LapTimes]
    /\ mainPc = "spawn"
    /\ mainIdx = 1
    /\ wpc = [w \in Workers |-> "unborn"]
    /\ fut = [w \in Workers |-> NotReady]
    /\ wres = [w \in Workers |-> 0]
    /\ wend = [w \in Workers |-> 0]
    /\ cresults = <<>>

NoSweep ==
    /\ harness = "none"
    /\ inputs = <<>>
    /\ simResult = [v \in ParamValues |-> 0]
    /\ mainPc = "done"
    /\ mainIdx = 1
    /\ wpc = <<>>
    /\ fut = <<>>
    /\ wres = <<>>
    /\ wend = <<>>
    /\ cresults = <<>>

\* First loop of packaged_run and async_parallel_run: one task per input,
\* started at once (std::thread, std::launch::async) with a copy of coeff.
Launch(h) ==
    /\ harness = h
    /\ mainPc = "spawn"
    /\ mainIdx <= Len(inputs)
    /\ wpc' = [wpc EXCEPT ![mainIdx] = "running"]
    /\ mainIdx' = mainIdx + 1
    /\ UNCHANGED nonSweepVars
    /\ UNCHANGED <<harness, inputs, simResult, mainPc, fut, wres, wend, cresults>>

LaunchDone(h) ==
    /\ harness = h
    /\ mainPc = "spawn"
    /\ mainIdx > Len(inputs)
    /\ mainPc' = "collect"
    /\ mainIdx' = 1
    /\ UNCHANGED nonSweepVars
    /\ UNCHANGED <<harness, inputs, simResult, wpc, fut, wres, wend, cresults>>

\* The task of worker w: runSimulator(false, coeff), stored in its future.
TaskRun(h, w) ==
    /\ harness = h
    /\ wpc[w] = "running"
    /\ fut' = [fut EXCEPT ![w] = Ready(runSimulator(inputs[w]))]
    /\ wpc' = [wpc EXCEPT ![w] = "done"]
    /\ UNCHANGED nonSweepVars
    /\ UNCHANGED <<harness, inputs, simResult, mainPc, mainIdx, wres, wend, cresults>>

\* Second loop: resultsf[i].get() blocks until task i has stored its value;
\* cresults.push_back({inputs[i], result}); packaged_run then joins worker i.
Collect(h) ==
    /\ harness = h
    /\ mainPc = "collect"
    /\ mainIdx <= Len(inputs)
    /\ fut[mainIdx].ready
    /\ cresults' = Append(cresults, <<inputs[mainIdx], fut[mainIdx].value>>)
    /\ mainIdx' = mainIdx + 1
    /\ UNCHANGED nonSweepVars
    /\ UNCHANGED <<harness, inputs, simResult, mainPc, wpc, fut, wres, wend>>

CollectDone(h) ==
    /\ harness = h
    /\ mainPc = "collect"
    /\ mainIdx > Len(inputs)
    /\ mainPc' = "done"
    /\ UNCHANGED nonSweepVars
    /\ UNCHANGED <<harness, inputs, simResult, mainIdx, wpc, fut, wres, wend, cresults>>

packaged_run_launch == Launch("packaged") \/ LaunchDone("packaged")
packaged_run_task(w) == TaskRun("packaged", w)
packaged_run_collect == Collect("packaged") \/ CollectDone("packaged")

async_parallel_run_launch == Launch("async") \/ LaunchDone("async")
async_parallel_run_task(w) == TaskRun("async", w)
async_parallel_run_collect == Collect("async") \/ CollectDone("async")

\* #pragma omp parallel for: the iterations are handed to the team's threads.
openmp_run_fork ==
    /\ harness = "openmp"
    /\ mainPc = "spawn"
    /\ wpc' = [w \in Workers |-> "running"]
    /\ mainPc' = "barrier"
    /\ UNCHANGED nonSweepVars
    /\ UNCHANGED <<harness, inputs, simResult, mainIdx, fut, wres, wend, cresults>>

\* Iteration w: double result = runSimulator(false, coeff);
openmp_run_iteration(w) ==
    /\ harness = "openmp"
    /\ wpc[w] = "running"
    /\ wres' = [wres EXCEPT ![w] = runSimulator(inputs[w])]
    /\ wpc' = [wpc EXCEPT ![w] = "push"]
    /\ UNCHANGED nonSweepVars
    /\ UNCHANGED <<harness, inputs, simResult, mainPc, mainIdx, fut, wend, cresults>>

\* Iteration w: cresults.push_back({coeff, result}) on the vector all
\* iterations share, without synchronisation.  push_back reads the end of the
\* vector ...
openmp_run_push_read(w) ==
    /\ harness = "openmp"
    /\ wpc[w] = "push"
    /\ wend' = [wend EXCEPT ![w] = Len(cresults)]
    /\ wpc' = [wpc EXCEPT ![w] = "pushing"]
    /\ UNCHANGED nonSweepVars
    /\ UNCHANGED <<harness, inputs, simResult, mainPc, mainIdx, fut, wres, cresults>>

\* What the vector holds after a push_back that read end position e: the
\* element is constructed at e + 1 and the end is stored, as e + 1 or as one
\* more than the end read again.
PushedAt(vec, e, elem, reread) ==
    LET n == IF reread THEN Len(vec) + 1 ELSE e + 1
    IN  [j \in 1..n |-> IF j = e + 1 THEN elem
                        ELSE IF j <= Len(vec) THEN vec[j]
                        ELSE Unconstructed]

\* ... and then constructs the element there and stores the new end.
openmp_run_push_write(w) ==
    /\ harness = "openmp"
    /\ wpc[w] = "pushing"
    /\ \E reread \in BOOLEAN :
            cresults' = PushedAt(cresults, wend[w], <<inputs[w], wres[w]>>, reread)
    /\ wpc' = [wpc EXCEPT ![w] = "done"]
    /\ UNCHANGED nonSweepVars
    /\ UNCHANGED <<harness, inputs, simResult, mainPc, mainIdx, fut, wres, wend>>

\* The implicit barrier at the end of the parallel loop.
openmp_run_join ==
    /\ harness = "openmp"
    /\ mainPc = "barrier"
    /\ \A w \in Workers : wpc[w] = "done"
    /\ mainPc' = "done"
    /\ UNCHANGED nonSweepVars
    /\ UNCHANGED <<harness, inputs, simResult, mainIdx, wpc, fut, wres, wend, cresults>>

SweepNext ==
    \/ packaged_run_launch
    \/ \E w \in Workers : packaged_run_task(w)
    \/ packaged_run_collect
    \/ async_parallel_run_launch
    \/ \E w \in Workers : async_parallel_run_task(w)
    \/ async_parallel_run_collect
    \/ openmp_run_fork
    \/ \E w \in Workers : openmp_run_iteration(w)
    \/ \E w \in Workers : openmp_run_push_read(w)
    \/ \E w \in Workers : openmp_run_push_write(w)
    \/ openmp_run_join

---------------------------------------------------------------------------
(* LabelingMachine: labelmachine.cpp, labelm_task.cpp *)

\* Bounds of the labeling machine model
MaxCalls == 7         \* calls a caller may make on one machine

\* namespace Config; temperatures in 1/10 degC.
DEFAULT_SPEED == 150
MAX_SPEED == 300
MIN_SPEED == 50
MAINTENANCE_SPEED == 20
INITIAL_LABEL_COUNT == 1000
NOMINAL_TEMP == 225
MAX_TEMP == 650

\* Config::LOW_LABEL_THRESHOLD and isLowerLabels are used by the sources but
\* defined in no file of them.
LOW_LABEL_THRESHOLD == 50

MachineStates == {"IDLE", "RUNNING", "LOW_LABEL", "PAUSED", "ERROR", "MAINTENANCE"}

\* Arguments the caller may pass.
Speeds == {MIN_SPEED - 1, MIN_SPEED, MAX_SPEED, MAX_SPEED + 1}
LabelCounts == {-1, 0, 1, LOW_LABEL_THRESHOLD}

\* The object as one value m; a member function is an operator from m to the
\* object it leaves (and, where it returns a value, the pair of both).
Machine ==
    [ state |-> machineState, previousState |-> previousState,
      sensors |-> sensors, previousSensors |-> previousSensors,
      productsLabeled |-> productsLabeled, errorCount |-> errorCount,
      errorCause |-> errorCause ]

Returns(m, value) == [m |-> m, ret |-> value]

\* Variant of isSpeedValid with MAX_SPEED excluded.
isSpeedValid_exclusive(speed) == speed >= MIN_SPEED /\ speed < MAX_SPEED

isSpeedValid(speed) == speed >= MIN_SPEED /\ speed <= MAX_SPEED

isTemperatureSafe(m) == m.sensors.temperature < MAX_TEMP

isLowerLabels(m) == m.sensors.labelRollRemaining < LOW_LABEL_THRESHOLD

IsRunning_or_paused(m) == m.state \in {"RUNNING", "LOW_LABEL", "PAUSED"}

IsRunning(m) == m.state = "RUNNING" \/ m.state = "LOW_LABEL"

\* LabelingMachine::LabelingMachine
Constructed ==
    [ state |-> "IDLE", previousState |-> "IDLE",
      sensors |-> [productDetected |-> FALSE, conveyorSpeed |-> 0,
                   labelRollRemaining |-> INITIAL_LABEL_COUNT,
                   temperature |-> NOMINAL_TEMP],
      previousSensors |-> [productDetected |-> FALSE, conveyorSpeed |-> 0,
                           labelRollRemaining |-> INITIAL_LABEL_COUNT,
                           temperature |-> NOMINAL_TEMP],
      productsLabeled |-> 0, errorCount |-> 0, errorCause |-> "none" ]

\* Variant of start that starts whatever the temperature.
start_any_temperature(m) ==
    IF m.state # "IDLE" THEN Returns(m, FALSE)
    ELSE IF m.sensors.labelRollRemaining = 0
    THEN Returns([m EXCEPT !.state = "ERROR", !.errorCause = "labels"], FALSE)
    ELSE Returns(
            [m EXCEPT !.state = IF isLowerLabels(m) THEN "LOW_LABEL" ELSE "RUNNING",
                      !.previousState = "RUNNING",
                      !.sensors.conveyorSpeed = DEFAULT_SPEED], TRUE)

start(m) ==
    IF m.state # "IDLE" THEN Returns(m, FALSE)
    ELSE IF ~isTemperatureSafe(m)
    THEN Returns([m EXCEPT !.state = "ERROR", !.errorCause = "temperature"], FALSE)
    ELSE IF m.sensors.labelRollRemaining = 0
    THEN Returns([m EXCEPT !.state = "ERROR", !.errorCause = "labels"], FALSE)
    ELSE Returns(
            [m EXCEPT !.state = IF isLowerLabels(m) THEN "LOW_LABEL" ELSE "RUNNING",
                      !.previousState = "RUNNING",
                      !.sensors.conveyorSpeed = DEFAULT_SPEED], TRUE)

\* Variant of stop that leaves the conveyor running.
stop_keep_speed(m) ==
    [m EXCEPT !.previousState = m.state, !.state = "IDLE"]

stop(m) ==
    [m EXCEPT !.previousState = m.state, !.state = "IDLE",
              !.sensors.conveyorSpeed = 0]

\* applyLabel, the branch that applies a label.
LabelApplied(m) ==
    LET counted == [m EXCEPT !.sensors.labelRollRemaining = @ - 1,
                             !.productsLabeled = @ + 1]
    IN  [counted EXCEPT
            !.state = IF isLowerLabels(counted) THEN "LOW_LABEL" ELSE @,
            !.sensors.temperature = @ + 1]

\* applyLabel, the branch taken on an empty roll.
RollEmpty(m) ==
    [m EXCEPT !.state = "ERROR", !.errorCause = "labels",
              !.errorCount = @ + 1, !.sensors.conveyorSpeed = 0]

\* Variant of applyLabel that leaves the label count as it is.
applyLabel_no_decrement(m) ==
    IF ~IsRunning(m) THEN m
    ELSE IF ~m.sensors.productDetected THEN m
    ELSE IF m.sensors.labelRollRemaining > 0
    THEN [LabelApplied(m) EXCEPT
            !.sensors.labelRollRemaining = m.sensors.labelRollRemaining]
    ELSE RollEmpty(m)

\* Variant of applyLabel that does not count the error of an empty roll.
applyLabel_no_error_count(m) ==
    IF ~IsRunning(m) THEN m
    ELSE IF ~m.sensors.productDetected THEN m
    ELSE IF m.sensors.labelRollRemaining > 0 THEN LabelApplied(m)
    ELSE [RollEmpty(m) EXCEPT !.errorCount = m.errorCount]

applyLabel(m) ==
    IF ~IsRunning(m) THEN m
    ELSE IF ~m.sensors.productDetected THEN m
    ELSE IF m.sensors.labelRollRemaining > 0 THEN LabelApplied(m)
    ELSE RollEmpty(m)

detectProduct(m, detected) ==
    IF detected /\ IsRunning(m)
    THEN applyLabel([m EXCEPT !.sensors.productDetected = detected])
    ELSE [m EXCEPT !.sensors.productDetected = detected]

setSpeed(m, speed) ==
    IF ~IsRunning(m) THEN Returns(m, FALSE)
    ELSE IF ~isSpeedValid(speed) THEN Returns(m, FALSE)
    ELSE Returns([m EXCEPT !.sensors.conveyorSpeed = speed], TRUE)

resetCounters(m) ==
    IF m.state = "IDLE" THEN [m EXCEPT !.productsLabeled = 0, !.errorCount = 0]
    ELSE m

loadLabelRoll(m, labelCount) ==
    IF labelCount < 0 THEN m
    ELSE [m EXCEPT
            !.sensors.labelRollRemaining = labelCount,
            !.state = IF @ = "LOW_LABEL" /\ labelCount >= LOW_LABEL_THRESHOLD
                      THEN "RUNNING"
                      ELSE IF @ = "ERROR" /\ labelCount > 0 THEN "IDLE"
                      ELSE @]

\* Variant of resume that reports an empty roll as an error.
resume_error_without_labels(m) ==
    IF m.state # "PAUSED" THEN Returns(m, FALSE)
    ELSE IF ~isTemperatureSafe(m)
    THEN Returns([m EXCEPT !.state = "ERROR", !.errorCause = "temperature"], FALSE)
    ELSE IF m.sensors.labelRollRemaining = 0
    THEN Returns([m EXCEPT !.state = "ERROR", !.errorCause = "labels",
                           !.errorCount = @ + 1], FALSE)
    ELSE LET restored == [m EXCEPT !.state = m.previousState,
                                   !.previousState = m.state,
                                   !.sensors = m.previousSensors]
         IN  Returns(
                [restored EXCEPT
                    !.state = IF isLowerLabels(restored) THEN "LOW_LABEL" ELSE @],
                TRUE)

resume(m) ==
    IF m.state # "PAUSED" THEN Returns(m, FALSE)
    ELSE IF ~isTemperatureSafe(m)
    THEN Returns([m EXCEPT !.state = "ERROR", !.errorCause = "temperature"], FALSE)
    ELSE IF m.sensors.labelRollRemaining = 0
    THEN Returns([m EXCEPT !.previousState = m.state, !.state = "IDLE"], FALSE)
    ELSE LET restored == [m EXCEPT !.state = m.previousState,
                                   !.previousState = m.state,
                                   !.sensors = m.previousSensors]
         IN  Returns(
                [restored EXCEPT
                    !.state = IF isLowerLabels(restored) THEN "LOW_LABEL" ELSE @],
                TRUE)

\* Variant of pause that saves the sensors after it has halted the conveyor.
pause_save_late(m) ==
    IF ~IsRunning(m) THEN Returns(m, FALSE)
    ELSE Returns(
            [m EXCEPT !.previousState = m.state, !.state = "PAUSED",
                      !.previousSensors = [m.sensors EXCEPT !.conveyorSpeed = 0],
                      !.sensors.conveyorSpeed = 0], TRUE)

pause(m) ==
    IF ~IsRunning(m) THEN Returns(m, FALSE)
    ELSE Returns(
            [m EXCEPT !.previousState = m.state, !.state = "PAUSED",
                      !.previousSensors = m.sensors,
                      !.sensors.conveyorSpeed = 0], TRUE)

\* Variant of enterMaintenance that is accepted in every state.
enterMaintenance_unguarded(m) ==
    Returns([m EXCEPT !.previousState = "IDLE", !.state = "MAINTENANCE",
                      !.sensors.conveyorSpeed = MAINTENANCE_SPEED], TRUE)

enterMaintenance(m) ==
    IF m.state # "IDLE" THEN Returns(m, FALSE)
    ELSE Returns([m EXCEPT !.previousState = "IDLE", !.state = "MAINTENANCE",
                           !.sensors.conveyorSpeed = MAINTENANCE_SPEED], TRUE)

\* Variant of exitMaintenance that leaves the conveyor running.
exitMaintenance_keep_speed(m) ==
    IF m.state # "MAINTENANCE" THEN Returns(m, FALSE)
    ELSE Returns([m EXCEPT !.previousState = m.state, !.state = "IDLE"], TRUE)

exitMaintenance(m) ==
    IF m.state # "MAINTENANCE" THEN Returns(m, FALSE)
    ELSE Returns([m EXCEPT !.previousState = m.state, !.state = "IDLE",
                           !.sensors.conveyorSpeed = 0], TRUE)


\* ~LabelingMachine
destructor(m) == IF m.state = "RUNNING" THEN stop(m) ELSE m

\* The object after WarmLabels labels: start(), WarmLabels times
\* detectProduct(true), stop(), resetCounters().  Each label warms the
\* machine by 0.1 degC, so that one more takes it to MAX_TEMP.
WarmLabels == (MAX_TEMP - NOMINAL_TEMP) - 1
Warm ==
    [Constructed EXCEPT
        !.previousState = "RUNNING",
        !.sensors.productDetected = TRUE,
        !.sensors.labelRollRemaining = INITIAL_LABEL_COUNT - WarmLabels,
        !.sensors.temperature = NOMINAL_TEMP + WarmLabels]

\* The object becomes m.
Becomes(m) ==
    /\ machineState' = m.state
    /\ previousState' = m.previousState
    /\ sensors' = m.sensors
    /\ previousSensors' = m.previousSensors
    /\ productsLabeled' = m.productsLabeled
    /\ errorCount' = m.errorCount
    /\ errorCause' = m.errorCause

\* A call of a member function that returns bool ...
CallBool(name, r) ==
    /\ Becomes(r.m)
    /\ op # "~LabelingMachine"
    /\ calls < MaxCalls
    /\ op' = name
    /\ ret' = r.ret
    /\ calls' = calls + 1
    /\ UNCHANGED nonMachineVars

\* ... and of one that returns nothing (ret is then FALSE).
CallVoid(name, m) ==
    /\ Becomes(m)
    /\ op # "~LabelingMachine"
    /\ calls < MaxCalls
    /\ op' = name
    /\ ret' = FALSE
    /\ calls' = calls + 1
    /\ UNCHANGED nonMachineVars

MachineAt(m) ==
    /\ machineState = m.state
    /\ previousState = m.previousState
    /\ sensors = m.sensors
    /\ previousSensors = m.previousSensors
    /\ productsLabeled = m.productsLabeled
    /\ errorCount = m.errorCount
    /\ errorCause = m.errorCause
    /\ op = "none"
    /\ ret = FALSE
    /\ calls = 0

NoMachine == MachineAt(Constructed)

Call_start == CallBool("start", start(Machine))
Call_stop == CallVoid("stop", stop(Machine))
Call_applyLabel ==
    CallVoid("applyLabel", applyLabel(Machine))
Call_detectProduct(detected) ==
    CallVoid("detectProduct", detectProduct(Machine, detected))
Call_setSpeed(speed) == CallBool("setSpeed", setSpeed(Machine, speed))
Call_resetCounters == CallVoid("resetCounters", resetCounters(Machine))
Call_loadLabelRoll(labelCount) ==
    CallVoid("loadLabelRoll", loadLabelRoll(Machine, labelCount))
Call_resume == CallBool("resume", resume(Machine))
Call_pause == CallBool("pause", pause(Machine))
Call_enterMaintenance == CallBool("enterMaintenance", enterMaintenance(Machine))
Call_exitMaintenance == CallBool("exitMaintenance", exitMaintenance(Machine))
\* The object is destroyed: no call follows.
Call_destructor == CallVoid("~LabelingMachine", destructor(Machine))

MachineNext ==
    \/ Call_start
    \/ Call_stop
    \/ Call_applyLabel
    \/ \E detected \in BOOLEAN : Call_detectProduct(detected)
    \/ \E speed \in Speeds : Call_setSpeed(speed)
    \/ Call_resetCounters
    \/ \E labelCount \in LabelCounts : Call_loadLabelRoll(labelCount)
    \/ Call_resume
    \/ Call_pause
    \/ Call_enterMaintenance
    \/ Call_exitMaintenance
    \/ Call_destructor

---------------------------------------------------------------------------
(* One evaluation of calculateGripMultiplier *)

\* Tyre temperatures (1/100 degC) and load pairs (N) it may be given.
GripTireTemps ==
    {-30000, -2000, 0, AMBIENT_TEMP, BASE_TIRE_TEMP, 8000, 10000, 12000,
     20000, 28000, 30000}
GripLoads ==
    { [frontLoad |-> 0, rearLoad |-> 0],
      [frontLoad |-> 1, rearLoad |-> 1],
      [frontLoad |-> (StaticLoad * vehicle.weightDistFront) \div 100,
       rearLoad |-> (StaticLoad * vehicle.weightDistRear) \div 100],
      [frontLoad |-> 3000, rearLoad |-> 5000],
      [frontLoad |-> 18144, rearLoad |-> 21961] }

NoGrip ==
    /\ gripArg = NoState
    /\ gripResult = 0
    /\ gripPc = "none"

GripStart ==
    /\ \E tireTemp \in GripTireTemps, loads \in GripLoads :
            gripArg = StartState(tireTemp, loads)
    /\ gripResult = 0
    /\ gripPc = "call"

Call_calculateGripMultiplier ==
    /\ gripPc = "call"
    /\ gripResult' = calculateGripMultiplier(gripArg)
    /\ gripPc' = "returned"
    /\ UNCHANGED gripArg
    /\ UNCHANGED nonGripVars

---------------------------------------------------------------------------
(* Evaluations of calculateMaxCornerSpeed, calculateLoad and simulateStep *)

\* The states, segments and time steps they may be given: velocities in
\* cm/s, accelerations in cm/s^2, radii in cm, time steps in 1/100 s.
StepVelocities == {0, 400, 3000, 9900}
StepAccelerations == {-500, 0, 500}
StepRadii == {-100, 0, 100}
StepTimeSteps == {50, 100, 200}

StepState(velocity, acceleration) ==
    [StartState(BASE_TIRE_TEMP,
                [frontLoad |-> (StaticLoad * vehicle.weightDistFront) \div 100,
                 rearLoad |-> (StaticLoad * vehicle.weightDistRear) \div 100])
        EXCEPT !.position = 1000, !.velocity = velocity,
               !.acceleration = acceleration]

NoStepResult == [next |-> NoState, stages |-> <<>>]

NoStep ==
    /\ stepArgs = [current |-> NoState,
                   segment |-> [length |-> 0, radius |-> 0, inclination |-> 0],
                   dt |-> 0]
    /\ cornerResult = 0
    /\ loadResult = NoState
    /\ stepResult = NoStepResult
    /\ stepDone = {}

StepStart ==
    /\ \E velocity \in StepVelocities, acceleration \in StepAccelerations,
          radius \in StepRadii, dt \in StepTimeSteps :
            stepArgs = [current |-> StepState(velocity, acceleration),
                        segment |-> [length |-> 90000, radius |-> radius,
                                     inclination |-> 0],
                        dt |-> dt]
    /\ cornerResult = 0
    /\ loadResult = NoState
    /\ stepResult = NoStepResult
    /\ stepDone = {}

\* calculateMaxCornerSpeed(segment.radius, grip_multiplier), as
\* calculateDerivartives calls it on the current state.
Call_calculateMaxCornerSpeed ==
    /\ "calculateMaxCornerSpeed" \notin stepDone
    /\ cornerResult' = calculateMaxCornerSpeed(stepArgs.segment.radius,
                            calculateGripMultiplier(stepArgs.current))
    /\ stepDone' = stepDone \cup {"calculateMaxCornerSpeed"}
    /\ UNCHANGED <<stepArgs, loadResult, stepResult>>
    /\ UNCHANGED nonStepVars

Call_calculateLoad ==
    /\ "calculateLoad" \notin stepDone
    /\ loadResult' = calculateLoad(stepArgs.current)
    /\ stepDone' = stepDone \cup {"calculateLoad"}
    /\ UNCHANGED <<stepArgs, cornerResult, stepResult>>
    /\ UNCHANGED nonStepVars

Call_simulateStep ==
    /\ "simulateStep" \notin stepDone
    /\ stepResult' =
            [next |-> simulateStep(stepArgs.current, stepArgs.segment, stepArgs.dt),
             stages |-> simulateStep_stages(stepArgs.current, stepArgs.segment,
                                            stepArgs.dt)]
    /\ stepDone' = stepDone \cup {"simulateStep"}
    /\ UNCHANGED <<stepArgs, cornerResult, loadResult>>
    /\ UNCHANGED nonStepVars

StepNext ==
    \/ Call_calculateMaxCornerSpeed
    \/ Call_calculateLoad
    \/ Call_simulateStep

---------------------------------------------------------------------------
(* Specifications *)

\* One simulator, driven by one caller.
Init == SimInit /\ NoSweep /\ NoMachine /\ NoGrip /\ NoStep
Next == SimNext
Spec == Init /\ [][Next]_vars

\* One sweep by one of the three harnesses.
SweepInit ==
    /\ SimInit
    /\ NoMachine
    /\ NoGrip
    /\ NoStep
    /\ \E h \in {"packaged", "async", "openmp"} : SweepStart(h)
SweepSpec == SweepInit /\ [][SweepNext]_vars

\* One labeling machine, driven by one caller.
MachineInit ==
    /\ SimInit
    /\ NoSweep
    /\ NoGrip
    /\ NoStep
    /\ \E m \in {Constructed, Warm} : MachineAt(m)
MachineSpec == MachineInit /\ [][MachineNext]_vars

\* calculateGripMultiplier, evaluated once on a state of the caller's choice.
GripInit ==
    /\ SimInit
    /\ NoSweep
    /\ NoMachine
    /\ NoStep
    /\ GripStart
GripSpec == GripInit /\ [][Call_calculateGripMultiplier]_vars

\* Laps on a track of positive lengths.
LapInit ==
    /\ NoSweep
    /\ NoMachine
    /\ NoGrip
    /\ NoStep
    /\ \E t \in LapTracks : SimWithTrack(t)
LapSpec == LapInit /\ [][LapNext]_vars

\* calculateMaxCornerSpeed, calculateLoad and simulateStep, each evaluated
\* once on arguments of the caller's choice.
StepInit ==
    /\ SimInit
    /\ NoSweep
    /\ NoMachine
    /\ NoGrip
    /\ StepStart
StepSpec == StepInit /\ [][StepNext]_vars

---------------------------------------------------------------------------
(* Properties of the parameter sweeps (SweepSpec) *)

\* The pair a sweep owes input i.
ExpectedPair(i) == <<inputs[i], runSimulator(inputs[i])>>

\* C1: when a sweep has returned, the i-th pair of its output carries the
\* i-th input value, whatever the order in which the runs completed.  The
\* statement is made of all three harnesses; openmp_run breaks it.
C1_OutputInInputOrder ==
    mainPc = "done" =>
        \A i \in 1..Len(cresults) :
            /\ i <= Len(inputs)
            /\ Len(cresults[i]) = 2
            /\ cresults[i][1] = inputs[i]

\* C2: no two concurrent runs of a sweep access the same mutable object: at
\* no time are two workers both inside a push_back on the result vector.
\* openmp_run breaks it.
C2_NoConcurrentPush ==
    \A w1, w2 \in Workers :
        w1 # w2 => ~(wpc[w1] = "pushing" /\ wpc[w2] = "pushing")

\* C3: when a sweep has returned, its output holds exactly one pair per
\* input, and the lap time of each pair is what runSimulator returns for that
\* input.  openmp_run breaks it.
C3_OnePairPerInput ==
    mainPc = "done" =>
        /\ Len(cresults) = Len(inputs)
        /\ \E p \in Permutations(1..Len(inputs)) :
                \A i \in 1..Len(inputs) : cresults[p[i]] = ExpectedPair(i)

---------------------------------------------------------------------------
(* Properties of the simulator (Spec) *)

InVelocityRange(v) == 0 <= v /\ v <= VMAX

\* The velocity the last simulateStep call computed before it constrained it.
UnclampedVelocity ==
    telemetry[Len(telemetry)].velocity + (state.acceleration * timeStep) \div 100

\* |a - b|
Distance(a, b) == IF a < b THEN b - a ELSE a - b

\* C4: the velocity of every state simulateStep returns, hence of every
\* telemetry sample and of the final state, lies in [0, 100 m/s].
C4_VelocityInRange ==
    /\ InVelocityRange(state.velocity)
    /\ \A k \in 1..Len(telemetry) : InVelocityRange(telemetry[k].velocity)

\* C4, its case: a step whose velocity exceeded 100 m/s and was constrained.
C4_UpperClampActed ==
    /\ stepCalls > 0
    /\ UnclampedVelocity > VMAX
    /\ state.velocity = VMAX

\* C5: in every telemetry sample, the first one and those of a constrained
\* velocity included, frontLoad + rearLoad is mass * g + downforce(velocity),
\* within 1 N.  The code breaks it.
C5_LoadsSumToTotal ==
    \A k \in 1..Len(telemetry) :
        Distance(telemetry[k].frontLoad + telemetry[k].rearLoad,
                 StaticLoad + calculateDownforce(telemetry[k].velocity)) <= 1

\* The while loop of runSimulation is at a state that simulateStep maps to
\* itself but for the time, without advancing the position: the loop is
\* entered again for ever.
Stalled ==
    /\ pc = "while"
    /\ state.position < segmentEnd
    /\ \E next \in { simulateStep(state, track[segIdx], timeStep) } :
            /\ next.position <= state.position
            /\ [next EXCEPT !.position = 0, !.time = 0]
                    = [state EXCEPT !.position = 0, !.time = 0]

\* C6: on a track whose segments all have a positive length, and with a time
\* step > 0, runSimulation terminates: its loop never reaches a state from
\* which it cannot advance.  The code breaks it.
C6_RunNeverStalls ==
    ( /\ timeStep > 0
      /\ \A i \in 1..Len(track) : track[i].length > 0 )
        => ~Stalled

\* C7: a run records one telemetry sample per simulateStep call, each taken
\* before the step: the k-th sample (from 0) carries time k * dt, the state
\* carries the time of all steps taken, and the lap time of a finished run is
\* the number of samples times dt.
C7_OneSamplePerStep ==
    /\ Len(telemetry) = stepCalls
    /\ \A k \in 1..Len(telemetry) : telemetry[k].time = (k - 1) * timeStep
    /\ state.time = stepCalls * timeStep
    /\ (pc = "idle" /\ runs > 0) => getLapTime = Len(telemetry) * timeStep

\* C7, its case: a finished run of several steps with a positive time step.
C7_FinishedRun ==
    /\ pc = "idle"
    /\ runs > 0
    /\ timeStep > 0
    /\ Len(telemetry) >= 3

\* C8: a run discards what an earlier run recorded and starts from position
\* 0, velocity 0 and time 0: right after runSimulation has begun the telemetry
\* is empty and the lap time 0, and the first sample is the start state.
C8_RunStartsFresh ==
    /\ (pc = "for" /\ segIdx = 1) =>
            /\ telemetry = <<>>
            /\ totalTime = 0
            /\ state.position = 0 /\ state.velocity = 0 /\ state.time = 0
    /\ Len(telemetry) <= stepCalls
    /\ Len(telemetry) > 0 =>
            /\ telemetry[1].position = 0
            /\ telemetry[1].velocity = 0
            /\ telemetry[1].time = 0

\* C8, its case: a second run has just begun on a simulator whose first run
\* went through a segment (segmentEnd is what that run left).
C8_SecondRunBegun ==
    /\ runs = 2
    /\ pc = "for"
    /\ segIdx = 1
    /\ segmentEnd > 0
    /\ telemetry = <<>>

\* C9: addTrackSegment with a length <= 0 is rejected and leaves the track as
\* it was.  The code breaks it.
C9_BadLengthRejected ==
    [][ \A l \in Lengths, r \in Radii, inc \in Inclinations :
            (l <= 0 /\ addTrackSegment(l, r, inc)) => track' = track ]_vars

\* C10: runSimulation with a time step <= 0 is rejected and leaves the
\* telemetry and the lap time of the run before as they were.  The code
\* breaks it.
C10_BadTimeStepRejected ==
    [][ \A ts \in TimeSteps :
            (ts <= 0 /\ runSimulation_begin(ts))
                => (telemetry' = telemetry /\ totalTime' = totalTime) ]_vars

---------------------------------------------------------------------------
(* Properties of the labeling machine (MachineSpec) *)

\* C11: a guarded transition called outside its source state (start outside
\* IDLE, pause outside RUNNING/LOW_LABEL, resume outside PAUSED,
\* enterMaintenance outside IDLE, exitMaintenance outside MAINTENANCE)
\* returns false and leaves state, previousState, the sensors (conveyor speed
\* and label count among them) and both counters unchanged.
C11_RejectedOutsideSourceState ==
    [][ ( \/ Call_start /\ machineState # "IDLE"
          \/ Call_pause /\ ~IsRunning(Machine)
          \/ Call_resume /\ machineState # "PAUSED"
          \/ Call_enterMaintenance /\ machineState # "IDLE"
          \/ Call_exitMaintenance /\ machineState # "MAINTENANCE" )
        => ( /\ ret' = FALSE
             /\ UNCHANGED <<machineState, previousState, sensors,
                            productsLabeled, errorCount>> ) ]_vars

\* C11, its case: resume has been rejected on a running machine.
C11_ResumeRejected ==
    /\ op = "resume"
    /\ ret = FALSE
    /\ machineState = "RUNNING"

C13_StopYieldsIdle ==
    [][ Call_stop
        => ( /\ machineState' = "IDLE"
             /\ sensors'.conveyorSpeed = 0
             /\ sensors'.labelRollRemaining = sensors.labelRollRemaining
             /\ UNCHANGED <<productsLabeled, errorCount>> ) ]_vars

\* C13, its case: stop has been called in ERROR (it records the state it was
\* called in as previousState).
C13_StoppedFromError ==
    /\ op = "stop"
    /\ previousState = "ERROR"
    /\ machineState = "IDLE"

\* C14: productsLabeled grows only by a label applied on a running machine
\* (RUNNING or LOW_LABEL) with a product detected and at least one label left;
\* the application takes exactly one label and counts exactly one product, so
\* detectProduct never changes productsLabeled + labelRollRemaining.
C14_LabelAppliedWhenRunning ==
    [][ /\ productsLabeled' > productsLabeled
            => ( /\ op' \in {"detectProduct", "applyLabel"}
                 /\ IsRunning(Machine)
                 /\ sensors'.productDetected
                 /\ sensors.labelRollRemaining >= 1
                 /\ sensors'.labelRollRemaining = sensors.labelRollRemaining - 1
                 /\ productsLabeled' = productsLabeled + 1 )
        /\ \A detected \in BOOLEAN :
                Call_detectProduct(detected)
                    => productsLabeled' + sensors'.labelRollRemaining
                            = productsLabeled + sensors.labelRollRemaining ]_vars

\* C14, its case: the second call on a machine was a detectProduct that
\* applied the first label.
C14_FirstLabelApplied ==
    /\ calls = 2
    /\ op = "detectProduct"
    /\ productsLabeled = 1

\* C15: a product detected on a running machine with an empty roll puts the
\* machine in ERROR with errorCount one higher, conveyor speed 0 and
\* productsLabeled unchanged; detectProduct in ERROR applies no label and
\* leaves the machine in ERROR.
C15_EmptyRollYieldsError ==
    [][ \A detected \in BOOLEAN :
            Call_detectProduct(detected)
                => /\ (IsRunning(Machine) /\ detected /\ sensors.labelRollRemaining = 0)
                        => ( /\ machineState' = "ERROR"
                             /\ errorCount' = errorCount + 1
                             /\ sensors'.conveyorSpeed = 0
                             /\ productsLabeled' = productsLabeled )
                   /\ machineState = "ERROR"
                        => ( /\ machineState' = "ERROR"
                             /\ productsLabeled' = productsLabeled
                             /\ errorCount' = errorCount
                             /\ sensors'.labelRollRemaining
                                    = sensors.labelRollRemaining ) ]_vars

\* C15, its case: detectProduct has found the roll empty.
C15_RollFoundEmpty ==
    /\ op = "detectProduct"
    /\ machineState = "ERROR"
    /\ errorCause = "labels"
    /\ errorCount = 1
    /\ sensors.productDetected

C18_MaintenanceMode ==
    [][ /\ (machineState # "MAINTENANCE" /\ machineState' = "MAINTENANCE")
            => (machineState = "IDLE" /\ op' = "enterMaintenance" /\ ret' = TRUE)
        /\ (Call_enterMaintenance /\ machineState = "IDLE")
            => (ret' = TRUE /\ machineState' = "MAINTENANCE")
        /\ machineState' = "MAINTENANCE"
            => sensors'.conveyorSpeed = MAINTENANCE_SPEED
        /\ (machineState = "MAINTENANCE" /\ machineState' # "MAINTENANCE")
            => ( /\ op' \in {"exitMaintenance", "stop"}
                 /\ machineState' = "IDLE"
                 /\ sensors'.conveyorSpeed = 0 )
        /\ (Call_exitMaintenance /\ machineState = "MAINTENANCE")
            => (ret' = TRUE /\ machineState' = "IDLE") ]_vars

\* C18, its case: setSpeed has been called (and rejected) in MAINTENANCE.
C18_SetSpeedInMaintenance ==
    /\ machineState = "MAINTENANCE"
    /\ op = "setSpeed"
    /\ ret = FALSE

\* C19: loadLabelRoll(n) with n > 0 leaves a machine in ERROR when it is in
\* ERROR because start or resume found the temperature unsafe.  The code
\* breaks it.
C19_TemperatureErrorStays ==
    [][ \A labelCount \in LabelCounts :
            ( /\ labelCount > 0
              /\ Call_loadLabelRoll(labelCount)
              /\ machineState = "ERROR"
              /\ errorCause = "temperature" )
                => machineState' = "ERROR" ]_vars

---------------------------------------------------------------------------
(* Properties of calculateGripMultiplier (GripSpec) *)

\* C20: the grip multiplier calculateGripMultiplier returns is >= 0 for every
\* tyre temperature and every load pair.  The code breaks it.
C20_GripMultiplierNonNegative ==
    gripPc = "returned" => (gripResult # NaN /\ gripResult >= 0)

---------------------------------------------------------------------------
(* Properties of the step functions (StepSpec) *)

\* C21: calculateMaxCornerSpeed returns the unconstrained target (1000 m/s)
\* for every radius <= 0, so that the control policy chooses on such a segment
\* what it chooses on a straight.  The code breaks it for radius < 0.
C21_NoConstraintWithoutRadius ==
    ("calculateMaxCornerSpeed" \in stepDone /\ stepArgs.segment.radius <= 0)
        => ( /\ cornerResult = NO_LIMIT
             /\ ControlPolicy(stepArgs.current.velocity, cornerResult)
                    = ControlPolicy(stepArgs.current.velocity, NO_LIMIT) )

\* C28: simulateStep integrates the position with the velocity before the
\* step: next.position = current.position + current.velocity * dt.  The code
\* breaks it.
C28_PositionFromPreStepVelocity ==
    "simulateStep" \in stepDone
        => stepResult.next.position
                = stepArgs.current.position
                    + (stepArgs.current.velocity * stepArgs.dt) \div 100

\* (k1 + 2*k2 + 2*k3 + k4)/6 of a vector of four stage derivatives.
Combined(k) == (k[1] + 2 * k[2] + 2 * k[3] + k[4]) \div 6

\* C29: simulateStep combines the four stage derivatives as
\* (k1 + 2*k2 + 2*k3 + k4)/6 for the acceleration and for the temperature
\* rate, and integrates both over dt: the velocity is current.velocity +
\* combined acceleration * dt before it is clamped, and the tyre temperature
\* is current.tireTemp + combined rate * dt (each up to one unit of rounding
\* per quotient).  The code breaks it for the temperature.
C29_CombinedRatesIntegratedOverDt ==
    "simulateStep" \in stepDone
        => LET next == stepResult.next
               k == stepResult.stages
               current == stepArgs.current
               dt == stepArgs.dt
           IN  /\ Distance(next.acceleration, Combined(k.acceleration)) <= 2
               /\ next.velocity
                    = ClampVelocity(
                        [next EXCEPT !.velocity = current.velocity
                                        + (next.acceleration * dt) \div 100]).velocity
               /\ Distance(next.tireTemp,
                           current.tireTemp
                                + (Combined(k.tempDeriv) * dt) \div 100) <= 2

\* C30: for every state with acceleration > 0, calculateLoad yields a
\* frontLoad below totalLoad * weightDistFront and a rearLoad above
\* totalLoad * weightDistRear, and the reverse for acceleration < 0.  The
\* code breaks it.
C30_AccelerationShiftsLoadRearward ==
    "calculateLoad" \in stepDone
        => LET current == stepArgs.current
               totalLoad == StaticLoad + calculateDownforce(current.velocity)
               front == (totalLoad * vehicle.weightDistFront) \div 100
               rear == (totalLoad * vehicle.weightDistRear) \div 100
           IN  /\ current.acceleration > 0
                    => (loadResult.frontLoad < front /\ loadResult.rearLoad > rear)
               /\ current.acceleration < 0
                    => (loadResult.frontLoad > front /\ loadResult.rearLoad < rear)

---------------------------------------------------------------------------
(* Properties of finished laps (LapSpec, Spec) *)

RECURSIVE SumOfLengths(_)
SumOfLengths(t) ==
    IF t = <<>> THEN 0 ELSE Head(t).length + SumOfLengths(Tail(t))

\* C22: after runSimulation on a track with at least one segment, all of
\* positive length, the final position is at least the sum of the segment
\* lengths, the lap time is > 0 and finite, and telemetry holds at least one
\* sample.  The code breaks it for a negative time step.
C22_FinishedLapCoversTrack ==
    ( /\ pc = "idle"
      /\ runs > 0
      /\ Len(track) >= 1
      /\ \A i \in 1..Len(track) : track[i].length > 0 )
        => ( /\ state.position >= SumOfLengths(track)
             /\ totalTime # NaN
             /\ totalTime > 0
             /\ Len(telemetry) >= 1 )

\* C23: getLapTime() returns 0 before any run, and after a run the time
\* field of the final state reached after the last segment.
C23_LapTimeIsFinalTime ==
    /\ runs = 0 => getLapTime = 0
    /\ (pc = "idle" /\ runs > 0) => getLapTime = state.time

\* C23, its case: a run has finished after some steps of a positive time.
C23_LapTimed ==
    /\ pc = "idle"
    /\ runs > 0
    /\ state.time > 0
    /\ getLapTime = state.time

\* The run is in its first segment, a level straight, and started from rest.
OnFirstStraight ==
    /\ pc = "while"
    /\ segIdx = 1
    /\ track[1].radius = 0
    /\ track[1].inclination = 0

---------------------------------------------------------------------------
(* Further properties of the labeling machine (MachineSpec) *)

\* C25 as stated: resume() from PAUSED with no labels available returns
\* false and moves the machine to IDLE, with conveyor speed 0 and errorCount
\* unchanged.  Not so when the temperature is unsafe.
C25_ResumeWithoutLabelsIdles ==
    [][ ( /\ Call_resume
          /\ machineState = "PAUSED"
          /\ sensors.labelRollRemaining = 0 )
        => ( /\ ret' = FALSE
             /\ machineState' = "IDLE"
             /\ sensors'.conveyorSpeed = 0
             /\ errorCount' = errorCount ) ]_vars

\* C25 amended: resume() from PAUSED with a temperature below MAX_TEMP and no
\* labels available returns false and moves the machine to IDLE, with
\* conveyor speed 0 and errorCount unchanged; with a temperature of MAX_TEMP
\* or more it returns false and moves the machine to ERROR.
C25_SafeResumeWithoutLabelsIdles ==
    [][ ( /\ Call_resume
          /\ machineState = "PAUSED"
          /\ sensors.labelRollRemaining = 0 )
        => ( /\ ret' = FALSE
             /\ machineState' = IF sensors.temperature < MAX_TEMP
                                THEN "IDLE" ELSE "ERROR"
             /\ sensors'.conveyorSpeed = 0
             /\ errorCount' = errorCount ) ]_vars

\* C25, its case: resume has found the roll of a paused machine empty.
C25_ResumedWithoutLabels ==
    /\ op = "resume"
    /\ ret = FALSE
    /\ machineState = "IDLE"
    /\ previousState = "PAUSED"
    /\ sensors.labelRollRemaining = 0

\* C26: detectProduct called in IDLE, PAUSED, ERROR or MAINTENANCE changes
\* the productDetected flag and nothing else: state, labelRollRemaining,
\* productsLabeled, errorCount and temperature stay as they were.
C26_DetectProductWhenNotRunning ==
    [][ \A detected \in BOOLEAN :
            ( /\ Call_detectProduct(detected)
              /\ machineState \in {"IDLE", "PAUSED", "ERROR", "MAINTENANCE"} )
                => ( /\ sensors' = [sensors EXCEPT !.productDetected = detected]
                     /\ UNCHANGED <<machineState, previousState, previousSensors,
                                    productsLabeled, errorCount>> ) ]_vars

\* C26, its case: a product has been detected on a paused machine that still
\* has labels.
C26_DetectedWhilePaused ==
    /\ op = "detectProduct"
    /\ machineState = "PAUSED"
    /\ sensors.productDetected
    /\ sensors.labelRollRemaining > 0

\* C27: whatever state the machine is in when its destructor runs, the
\* conveyor speed is 0 once the destructor has finished.  The code breaks it.
C27_DestroyedMachineStands ==
    [][ Call_destructor => sensors'.conveyorSpeed = 0 ]_vars

---------------------------------------------------------------------------
(* Properties of the control policy (StepSpec) and of the segment loop
   (LapSpec) *)

\* The target speed of the step that has been evaluated.
StepTarget ==
    calculateMaxCornerSpeed(stepArgs.segment.radius,
                            calculateGripMultiplier(stepArgs.current))

\* C31: the state a step produces carries exactly one of three input pairs,
\* chosen from the velocity v and the target speed of the state the step
\* started from: v < 0.95 * target gives (throttle 1.0, brake 0),
\* v > 1.05 * target gives (throttle 0, brake 0.8), anything else gives
\* (throttle 0.3, brake 0); so throttle and brake are never both positive.
C31_OneOfThreeInputPairs ==
    "simulateStep" \in stepDone
        => LET v == stepArgs.current.velocity
               below == Less(v, Scaled(StepTarget, 95, 100))
               above == Less(Scaled(StepTarget, 105, 100), v)
               next == stepResult.next
           IN  /\ below => (next.throttle = 10 /\ next.brake = 0)
               /\ (~below /\ above) => (next.throttle = 0 /\ next.brake = 8)
               /\ (~below /\ ~above) => (next.throttle = 3 /\ next.brake = 0)
               /\ ~(next.throttle > 0 /\ next.brake > 0)

\* C31, its case: a step has been evaluated on a corner at a velocity within
\* 5 % of the target speed.
C31_WithinBand ==
    /\ "simulateStep" \in stepDone
    /\ stepArgs.segment.radius > 0
    /\ stepArgs.current.velocity > 0
    /\ stepResult.next.throttle = 3
    /\ stepResult.next.brake = 0

\* C32: with a time step > 0, at the exit of every segment
\* segmentEnd <= position < segmentEnd + vMax * dt.  The code breaks it.
C32_OvershootWithinOneStep ==
    (pc = "while" /\ ~(state.position < segmentEnd) /\ timeStep > 0)
        => ( /\ segmentEnd <= state.position
             /\ state.position < segmentEnd + (VMAX * timeStep) \div 100 )

====
